---- MODULE Spec2Model ----
(***************************************************************************)
(* Model of src/src/elements/curtain_wall.py: curtain_wall() and its       *)
(* helpers _centered_rect_curve, _box_brep, _panel_brep.                   *)
(*                                                                         *)
(* Numbers.  The code computes in floats.  Here a float x is the integer   *)
(* x * Scale ("ticks"); Scale is chosen so that every division the code    *)
(* performs on the modelled inputs (seg_len / panel_count, * 0.5) is       *)
(* exact, so the model is the real-number semantics of the code.           *)
(* Unit vectors are integer triples: the guides of the model have          *)
(* axis-parallel segments, for which Unitize() yields exactly such a       *)
(* triple.  Points and vectors are <<X, Y, Z>>.                            *)
(***************************************************************************)
EXTENDS Integers, Sequences, FiniteSets, TLC

\* ----------------------------------------------------------------- bounds
MaxSegs == 3          \* a guide has at most MaxSegs segments
MaxStories == 2       \* stories ranges over 1..MaxStories

\* ------------------------------------------------------------ input sets
\* Displacements (in source units) between consecutive guide points:
\* a coincident point, long runs along +X and +Y, a short run back along
\* -X and a short vertical run.
Moves == { <<0, 0, 0>>, <<4000, 0, 0>>, <<0, 4000, 0>>, <<-40, 0, 0>>, <<0, 0, 40>> }

\* The defaults of curtain_wall's signature (source units).
Defaults ==
    [ mullion_spacing_mm |-> 1350, mullion_width_mm |-> 60, mullion_depth_mm |-> 120,
      transom_height_mm |-> 60, transom_depth_mm |-> 120, panel_thickness_mm |-> 24,
      glass_inset_mm |-> 40, glass_gap_mm |-> 12, story_height_mm |-> 3200 ]

\* The parameter sets of the model: the defaults, and the defaults with one
\* parameter changed (a mullion as wide as the short bay, a mullion wider
\* than it, a transom of half the story height, a spacing equal to the
\* long run).
ParamSets ==
    { Defaults,
      [Defaults EXCEPT !.mullion_width_mm = 40],
      [Defaults EXCEPT !.mullion_width_mm = 120],
      [Defaults EXCEPT !.transom_height_mm = 1600],
      [Defaults EXCEPT !.mullion_spacing_mm = 4000] }

None == "None"

\* ------------------------------------------------------------ arithmetic
Max(a, b) == IF a >= b THEN a ELSE b
Abs(a) == IF a >= 0 THEN a ELSE -a
Sgn(a) == IF a > 0 THEN 1 ELSE IF a < 0 THEN -1 ELSE 0

RECURSIVE Gcd(_, _)
Gcd(a, b) == IF b = 0 THEN a ELSE Gcd(b, a % b)
RECURSIVE LcmUpTo(_)
LcmUpTo(n) == IF n <= 1 THEN 1 ELSE (LcmUpTo(n - 1) * n) \div Gcd(LcmUpTo(n - 1), n)

\* The largest floor(length / spacing) the inputs can produce.
MaxBays ==
    LET qs == { (Abs(m[1]) + Abs(m[2]) + Abs(m[3])) \div ps.mullion_spacing_mm :
                    m \in Moves, ps \in ParamSets }
    IN  CHOOSE q \in qs : \A r \in qs : r <= q

\* Ticks per source unit: even, and a multiple of every possible bay count.
Scale == 2 * LcmUpTo(Max(1, MaxBays))

\* float(v) of a value given in source units
Float(v) == v * Scale

\* 1e-6 is 1 / EpsDen source units
EpsDen == 1000000

\* x <= 1e-6  (x in ticks):  x / Scale <= 1 / EpsDen
LeqEps(x) == x <= Scale \div EpsDen

\* x * 0.5
Half(x) == x \div 2

\* ---------------------------------------------------------------- vectors
Add(a, b) == << a[1] + b[1], a[2] + b[2], a[3] + b[3] >>
Sub(a, b) == << a[1] - b[1], a[2] - b[2], a[3] - b[3] >>
Mul(a, k) == << a[1] * k, a[2] * k, a[3] * k >>
Neg(a) == Mul(a, -1)
Dot(a, b) == a[1] * b[1] + a[2] * b[2] + a[3] * b[3]
CrossProduct(a, b) ==
    << a[2] * b[3] - a[3] * b[2], a[3] * b[1] - a[1] * b[3], a[1] * b[2] - a[2] * b[1] >>
AddZ(p, dz) == << p[1], p[2], p[3] + dz >>

ZAxis == <<0, 0, 1>>
YAxis == <<0, 1, 0>>

\* Vector3d.Length of an axis-parallel vector: the magnitude of its one
\* non-zero component.
Length(v) == Abs(v[1]) + Abs(v[2]) + Abs(v[3])

\* Vector3d.Unitize of an axis-parallel vector (the zero vector is left alone).
Unitize(v) == << Sgn(v[1]), Sgn(v[2]), Sgn(v[3]) >>

IsTiny(v) == v = <<0, 0, 0>>

\* ------------------------------------------------------- geometry helpers
\* rg.Plane(origin, xDirection, yDirection); the two directions the code
\* passes are always perpendicular unit vectors.
Plane(origin, xdir, ydir) == [origin |-> origin, xaxis |-> xdir, yaxis |-> ydir]

\* Rectangle centered on plane origin: the two intervals of the rectangle.
CenteredRectCurve(plane, size_x, size_y) ==
    [ plane |-> plane,
      ix |-> << Half(-size_x), Half(size_x) >>,
      iy |-> << Half(-size_y), Half(size_y) >> ]

\* The capped extrusion of the centered rectangle by height_z along the
\* plane normal.  Every extent the model passes is non-zero, for which
\* Extrusion.Create yields a solid (the None branch is not taken).
BoxBrep(plane, size_x, size_y, height_z) ==
    [ profile |-> CenteredRectCurve(plane, size_x, size_y), height |-> height_z ]

\* thickness is the depth in plane Y
PanelBrep(plane, width_mm, height_mm, thickness_mm) ==
    BoxBrep(plane, width_mm, thickness_mm, height_mm)

\* ------------------------------------------------------------------ state
VARIABLES
    pl,              \* the resolved guide polyline: a sequence of >= 2 points
    P,               \* the parameters after the float()/int() conversions
    s, i, j,         \* the loop indices: story, segment (0-based), bay
    pc,              \* "story", "segment", "bay", "done"
    prev_yaxis,      \* the carried lateral axis, None until the first segment
    seg,             \* the locals of the segment being processed, or None
    breps_mullions,  \* output: framing solids (mullions and transoms)
    breps_glass,     \* output: glazing solids
    frames,          \* history: the frame of every segment processed
    bays             \* history: every bay iteration entered

vars == << pl, P, s, i, j, pc, prev_yaxis, seg, breps_mullions, breps_glass,
           frames, bays >>

\* The polyline that starts at the origin and follows the displacements ms.
RECURSIVE Polyline(_)
Polyline(ms) ==
    IF ms = << >> THEN << <<0, 0, 0>> >>
    ELSE LET head == Polyline(SubSeq(ms, 1, Len(ms) - 1))
         IN  Append(head, Add(head[Len(head)], Mul(ms[Len(ms)], Scale)))

Guides == UNION { { Polyline(ms) : ms \in [1..n -> Moves] } : n \in 1..MaxSegs }

\* pl.Count
Count == Len(pl)

\* the solids of the output lists carry where they were made:
\* kind, story s, segment i, bay j (the end mullion has j = panel_count)
Solid(kind, st, ii, jj, brep) ==
    [ kind |-> kind, s |-> st, i |-> ii, j |-> jj, brep |-> brep ]

\* ----------------------------------------------------- per-segment frame
\* Candidate yaxis (left of segment in world Z-up), with the world-Y fallback
CandidateYaxis(xaxis) ==
    LET c == CrossProduct(ZAxis, xaxis)
    IN  Unitize(IF IsTiny(c) THEN YAxis ELSE c)

\* mutant: the candidate is never reversed
ContinuousYaxis_NeverReversed(candidate, prev) == candidate

\* keep yaxis consistent across segments
ContinuousYaxis(candidate, prev) ==
    IF prev # None /\ Dot(candidate, prev) < 0 THEN Neg(candidate) ELSE candidate

\* mutant: no segment is treated as degenerate
SegmentIsDegenerate_Never(seg_len) == FALSE

\* seg_len <= 1e-6: the segment is skipped
SegmentIsDegenerate(seg_len) == LeqEps(seg_len)

\* mutant: the quotient is rounded up instead of down
PanelCount_RoundedUp(seg_len, spacing) == seg_len \div spacing + 1

\* panel_count = max(1, int(seg_len // mullion_spacing_mm))
PanelCount(seg_len, spacing) == Max(1, seg_len \div spacing)

\* step = seg_len / panel_count
BayStep(seg_len, panel_count) == seg_len \div panel_count

\* ------------------------------------------------------------ one bay
Z0(st) == st * P.story_height_mm
Z1(st) == Z0(st) + P.story_height_mm

BasePt(sg, st, jj) == AddZ(Add(sg.p_start, Mul(sg.xaxis, jj * sg.step)), Z0(st))
NextPt(sg, st, jj) == AddZ(Add(sg.p_start, Mul(sg.xaxis, (jj + 1) * sg.step)), Z0(st))

EdgeOffset == Half(P.mullion_width_mm)
PanelStart(sg, st, jj) == Add(BasePt(sg, st, jj), Mul(sg.xaxis, EdgeOffset))
PanelEnd(sg, st, jj) == Sub(NextPt(sg, st, jj), Mul(sg.xaxis, EdgeOffset))
ClearVec(sg, st, jj) == Sub(PanelEnd(sg, st, jj), PanelStart(sg, st, jj))
ClearSpan(sg, st, jj) == Length(ClearVec(sg, st, jj))
ClearWidth(sg, st, jj) == ClearSpan(sg, st, jj) - 2 * P.glass_gap_mm
ClearHeight == P.story_height_mm - 2 * P.transom_height_mm - 2 * P.glass_gap_mm

\* the two `continue` tests of the bay loop
InfillSkipped(clear_span, clear_width, clear_height) ==
    LeqEps(clear_span) \/ LeqEps(clear_width) \/ LeqEps(clear_height)

BaySkipsInfill(sg, st, jj) ==
    InfillSkipped(ClearSpan(sg, st, jj), ClearWidth(sg, st, jj), ClearHeight)

ClearDir(sg, st, jj) == Unitize(ClearVec(sg, st, jj))

Mid(sg, st, jj) ==
    LET sum == Add(PanelStart(sg, st, jj), PanelEnd(sg, st, jj))
    IN  << Half(sum[1]), Half(sum[2]), Half(sum[3]) >>

Mullion(sg, origin) ==
    BoxBrep(Plane(origin, sg.xaxis, sg.yaxis),
            P.mullion_width_mm, P.mullion_depth_mm, P.story_height_mm)

Transom(sg, st, jj, z) ==
    LET mid == Mid(sg, st, jj)
    IN  BoxBrep(Plane(<< mid[1], mid[2], z >>, ClearDir(sg, st, jj), sg.yaxis),
                ClearSpan(sg, st, jj), P.transom_depth_mm, P.transom_height_mm)

GlassCenterOffset ==
    Half(P.mullion_depth_mm) - P.glass_inset_mm - Half(P.panel_thickness_mm)

Glass(sg, st, jj) ==
    LET mid == Mid(sg, st, jj)
        glass_origin ==
            << mid[1] - sg.yaxis[1] * GlassCenterOffset,
               mid[2] - sg.yaxis[2] * GlassCenterOffset,
               sg.base_z + Z0(st) + P.transom_height_mm + P.glass_gap_mm >>
    IN  PanelBrep(Plane(glass_origin, ClearDir(sg, st, jj), sg.yaxis),
                  ClearWidth(sg, st, jj), ClearHeight, P.panel_thickness_mm)

\* mutant: the transoms are appended before the bay-start mullion
BayFraming_TransomsFirst(sg, st, jj) ==
    ( IF BaySkipsInfill(sg, st, jj) THEN << >>
      ELSE << Solid("bottom_transom", st, sg.i, jj,
                    Transom(sg, st, jj, sg.base_z + Z0(st))),
              Solid("top_transom", st, sg.i, jj,
                    Transom(sg, st, jj, sg.base_z + Z1(st) - P.transom_height_mm)) >> )
    \o << Solid("mullion", st, sg.i, jj, Mullion(sg, BasePt(sg, st, jj))) >>

\* what one bay iteration appends to breps_mullions, in order
BayFraming(sg, st, jj) ==
    << Solid("mullion", st, sg.i, jj, Mullion(sg, BasePt(sg, st, jj))) >>
    \o IF BaySkipsInfill(sg, st, jj) THEN << >>
       ELSE << Solid("bottom_transom", st, sg.i, jj,
                     Transom(sg, st, jj, sg.base_z + Z0(st))),
               Solid("top_transom", st, sg.i, jj,
                     Transom(sg, st, jj, sg.base_z + Z1(st) - P.transom_height_mm)) >>

\* what one bay iteration appends to breps_glass
BayGlazing(sg, st, jj) ==
    IF BaySkipsInfill(sg, st, jj) THEN << >>
    ELSE << Solid("glass", st, sg.i, jj, Glass(sg, st, jj)) >>

\* mutant: no mullion is appended at the segment end
SegmentEndFraming_Omitted(sg, st) == << >>

\* final mullion at segment end
SegmentEndFraming(sg, st) ==
    << Solid("end_mullion", st, sg.i, sg.panel_count,
             Mullion(sg, AddZ(sg.p_end, Z0(st)))) >>

\* ---------------------------------------------------------------- actions
\* the float(...) conversions of the parameters and int(stories)
Converted(ps, stories) ==
    [ mullion_spacing_mm |-> Float(ps.mullion_spacing_mm),
      mullion_width_mm |-> Float(ps.mullion_width_mm),
      mullion_depth_mm |-> Float(ps.mullion_depth_mm),
      transom_height_mm |-> Float(ps.transom_height_mm),
      transom_depth_mm |-> Float(ps.transom_depth_mm),
      panel_thickness_mm |-> Float(ps.panel_thickness_mm),
      glass_inset_mm |-> Float(ps.glass_inset_mm),
      glass_gap_mm |-> Float(ps.glass_gap_mm),
      story_height_mm |-> Float(ps.story_height_mm),
      stories |-> stories ]

Init ==
    /\ pl \in Guides
    /\ \E ps \in ParamSets, stories \in 1..MaxStories :
           P = Converted(ps, stories)
    /\ s = 0 /\ i = 0 /\ j = 0
    /\ pc = "story"
    /\ prev_yaxis = None
    /\ seg = None
    /\ breps_mullions = << >>
    /\ breps_glass = << >>
    /\ frames = << >>
    /\ bays = << >>

\* for s in range(stories): enter the next story
BeginStory ==
    /\ pc = "story" /\ s < P.stories
    /\ pc' = "segment" /\ i' = 0
    /\ UNCHANGED << pl, P, s, j, prev_yaxis, seg, breps_mullions, breps_glass,
                    frames, bays >>

\* for i in range(pl.Count - 1): a segment with seg_len <= 1e-6 -> continue
SkipSegment ==
    /\ pc = "segment" /\ i < Count - 1
    /\ SegmentIsDegenerate(Length(Sub(pl[i + 2], pl[i + 1])))
    /\ i' = i + 1
    /\ UNCHANGED << pl, P, s, j, pc, prev_yaxis, seg, breps_mullions, breps_glass,
                    frames, bays >>

\* the frame and the bay subdivision of segment i
BeginSegment ==
    /\ pc = "segment" /\ i < Count - 1
    /\ LET p_start == pl[i + 1]
           p_end == pl[i + 2]
           seg_vec == Sub(p_end, p_start)
           seg_len == Length(seg_vec)
           xaxis == Unitize(seg_vec)
           yaxis == ContinuousYaxis(CandidateYaxis(xaxis), prev_yaxis)
           panel_count == PanelCount(seg_len, P.mullion_spacing_mm)
       IN  /\ ~ SegmentIsDegenerate(seg_len)
           /\ prev_yaxis' = yaxis
           /\ seg' = [ i |-> i, p_start |-> p_start, p_end |-> p_end,
                       seg_len |-> seg_len, base_z |-> p_start[3],
                       xaxis |-> xaxis, yaxis |-> yaxis,
                       panel_count |-> panel_count,
                       step |-> BayStep(seg_len, panel_count) ]
           /\ frames' = Append(frames, [ s |-> s, i |-> i, xaxis |-> xaxis,
                                         yaxis |-> yaxis ])
    /\ pc' = "bay" /\ j' = 0
    /\ UNCHANGED << pl, P, s, i, breps_mullions, breps_glass, bays >>

\* for j in range(panel_count): one bay
Bay ==
    /\ pc = "bay" /\ j < seg.panel_count
    /\ breps_mullions' = breps_mullions \o BayFraming(seg, s, j)
    /\ breps_glass' = breps_glass \o BayGlazing(seg, s, j)
    /\ bays' = Append(bays, [ s |-> s, i |-> i, j |-> j ])
    /\ j' = j + 1
    /\ UNCHANGED << pl, P, s, i, pc, prev_yaxis, seg, frames >>

\* after the bays: the end mullion, then the next segment
EndSegment ==
    /\ pc = "bay" /\ j = seg.panel_count
    /\ breps_mullions' = breps_mullions \o SegmentEndFraming(seg, s)
    /\ i' = i + 1
    /\ pc' = "segment"
    /\ UNCHANGED << pl, P, s, j, prev_yaxis, seg, breps_glass, frames, bays >>

\* the segment loop is exhausted: next story
EndStory ==
    /\ pc = "segment" /\ i = Count - 1
    /\ s' = s + 1
    /\ pc' = "story"
    /\ UNCHANGED << pl, P, i, j, prev_yaxis, seg, breps_mullions, breps_glass,
                    frames, bays >>

\* return breps_mullions, breps_glass
Return ==
    /\ pc = "story" /\ s >= P.stories
    /\ pc' = "done"
    /\ UNCHANGED << pl, P, s, i, j, prev_yaxis, seg, breps_mullions, breps_glass,
                    frames, bays >>

Next ==
    \/ BeginStory
    \/ SkipSegment
    \/ BeginSegment
    \/ Bay
    \/ EndSegment
    \/ EndStory
    \/ Return

Spec == Init /\ [][Next]_vars

\* ================================================================ claims

\* the entries of an output list made in story st
OfStory(list, st) == SelectSeq(list, LAMBDA e : e.s = st)

\* a solid moved up by dz and relabelled as made in story st
Lifted(e, st, dz) ==
    [ e EXCEPT !.s = st, !.brep.profile.plane.origin = AddZ(@, dz) ]

\* frame k of the history is the first one of its story
FirstOfStory(k) == k = 1 \/ frames[k - 1].s # frames[k].s

\* C1: the carried lateral axis is reset at the start of every story: the
\* first non-degenerate segment processed in each story uses the unmodified
\* candidate lateral axis (worldUp x forward, or the world-Y fallback).
C1_PrevYaxisResetPerStory ==
    \A k \in DOMAIN frames :
        FirstOfStory(k) => frames[k].yaxis = CandidateYaxis(frames[k].xaxis)

\* C2: on return, the solids of every story s are exactly the solids of
\* story 0 moved up by story_height * s: same sequence, extents, axes and
\* horizontal positions.
C2_StoriesAreLiftedCopies ==
    pc = "done" =>
        \A st \in 0..(P.stories - 1) :
            LET m0 == OfStory(breps_mullions, 0)
                g0 == OfStory(breps_glass, 0)
                dz == st * P.story_height_mm
            IN  /\ OfStory(breps_mullions, st)
                       = [ k \in DOMAIN m0 |-> Lifted(m0[k], st, dz) ]
                /\ OfStory(breps_glass, st)
                       = [ k \in DOMAIN g0 |-> Lifted(g0[k], st, dz) ]

\* C3: the lateral axes of any two consecutively processed non-degenerate
\* segments have a non-negative dot product; the candidate is reversed
\* exactly when a previous lateral axis exists and dot(candidate, previous)
\* < 0; the axis used becomes the carried previous axis.
C3_LateralContinuity ==
    /\ \A k \in DOMAIN frames :
           LET cand == CandidateYaxis(frames[k].xaxis)
               reversed == k > 1 /\ Dot(cand, frames[k - 1].yaxis) < 0
           IN  /\ frames[k].yaxis = IF reversed THEN Neg(cand) ELSE cand
               /\ k > 1 => Dot(frames[k - 1].yaxis, frames[k].yaxis) >= 0
    /\ prev_yaxis = IF frames = << >> THEN None ELSE frames[Len(frames)].yaxis

\* a segment has been processed whose candidate was reversed
C3_Witness ==
    \E k \in DOMAIN frames :
        /\ k > 1
        /\ Dot(CandidateYaxis(frames[k].xaxis), frames[k - 1].yaxis) < 0
        /\ frames[k].yaxis = Neg(CandidateYaxis(frames[k].xaxis))

\* ------------------------------------------------ bays, as the claims see them
\* the length of guide segment ii (0-based) and the width of its bays
SegLenAt(ii) == Length(Sub(pl[ii + 2], pl[ii + 1]))
BayCountAt(ii) == PanelCount(SegLenAt(ii), P.mullion_spacing_mm)
BayWidthAt(ii) == BayStep(SegLenAt(ii), BayCountAt(ii))

\* the positions in an output list of the solids of the given kinds made for bay b
InBay(list, b, kinds) ==
    { k \in DOMAIN list : /\ list[k].s = b.s /\ list[k].i = b.i /\ list[k].j = b.j
                          /\ list[k].kind \in kinds }

Transoms == { "bottom_transom", "top_transom" }

\* the extent of a solid along its plane's x axis
WidthOf(e) == e.brep.profile.ix[2] - e.brep.profile.ix[1]

\* C4: the clear span of a bay is its width minus the mullion width; a bay
\* whose clear span is <= 1e-6 (so every bay no wider than a mullion) gets
\* no transom and no glass, while its bay-start mullion is still emitted.
C4_NarrowBayHasNoInfill ==
    \A n \in DOMAIN bays :
        LET b == bays[n]
            clear_span == BayWidthAt(b.i) - P.mullion_width_mm
        IN  /\ Cardinality(InBay(breps_mullions, b, {"mullion"})) = 1
            /\ \A k \in InBay(breps_mullions, b, Transoms) :
                   WidthOf(breps_mullions[k]) = clear_span
            /\ LeqEps(clear_span) =>
                   /\ InBay(breps_mullions, b, Transoms) = {}
                   /\ InBay(breps_glass, b, {"glass"}) = {}

\* the signed distance from the guide line of segment e.i to the origin of
\* solid e, along the solid's lateral axis
LateralOf(e) ==
    Dot(Sub(e.brep.profile.plane.origin, pl[e.i + 1]), e.brep.profile.plane.yaxis)

\* C5: every glass panel is centred (mullion depth/2 - glass inset - panel
\* thickness/2) from the guide line toward the negative-lateral side, and
\* its face on the positive-lateral side lies exactly glass inset behind the
\* mullion's outer face at +mullion depth/2.
C5_GlassOuterFaceInset ==
    \A k \in DOMAIN breps_glass :
        LET g == breps_glass[k]
            offset == Half(P.mullion_depth_mm) - P.glass_inset_mm
                          - Half(P.panel_thickness_mm)
            outer_face == LateralOf(g) + g.brep.profile.iy[2]
        IN  /\ LateralOf(g) = - offset
            /\ outer_face = Half(P.mullion_depth_mm) - P.glass_inset_mm

\* the clear width and clear height of bay b: the clear span (bay width
\* minus mullion width) less a glass gap on each side
ClearWidthOf(b) == (BayWidthAt(b.i) - P.mullion_width_mm) - 2 * P.glass_gap_mm
ClearHeightOf ==
    P.story_height_mm - 2 * P.transom_height_mm - 2 * P.glass_gap_mm

\* segment ii of story st has been left (its end mullion has been appended)
SegmentFinished(st, ii) == s > st \/ (s = st /\ (i > ii \/ pc = "done"))

\* C6: a bay whose clear height or clear width is <= 1e-6 gets no transom
\* and no glass, but its bay-start mullion and the end mullion of its
\* segment are emitted; a bay that gets glass gets exactly one glass panel
\* and exactly two transoms.
C6_InfillAllOrNothing ==
    \A n \in DOMAIN bays :
        LET b == bays[n]
            transoms == InBay(breps_mullions, b, Transoms)
            glass == InBay(breps_glass, b, {"glass"})
        IN  /\ (LeqEps(ClearHeightOf) \/ LeqEps(ClearWidthOf(b))) =>
                   /\ transoms = {} /\ glass = {}
                   /\ Cardinality(InBay(breps_mullions, b, {"mullion"})) = 1
                   /\ SegmentFinished(b.s, b.i) =>
                          \E k \in DOMAIN breps_mullions :
                              /\ breps_mullions[k].kind = "end_mullion"
                              /\ breps_mullions[k].s = b.s
                              /\ breps_mullions[k].i = b.i
            /\ glass # {} =>
                   /\ Cardinality(glass) = 1
                   /\ Cardinality(InBay(breps_mullions, b, {"bottom_transom"})) = 1
                   /\ Cardinality(InBay(breps_mullions, b, {"top_transom"})) = 1

\* ------------------------------------------------------------ counting
Mullions == { "mullion", "end_mullion" }

OriginOf(e) == e.brep.profile.plane.origin

\* floor(L / S) for L >= S > 0, stated without division
IsFloorOf(n, L, S) == n * S <= L /\ L < (n + 1) * S

\* the number of bays the claims expect for a segment of length L
ExpectedBays(L, S) ==
    IF L < S THEN 1 ELSE CHOOSE n \in 1..(MaxBays + 1) : IsFloorOf(n, L, S)

\* sum over the segments ii..Count-2 of (bay count + 1), degenerate
\* segments counting 0
RECURSIVE ExpectedMullionsFrom(_)
ExpectedMullionsFrom(ii) ==
    IF ii > Count - 2 THEN 0
    ELSE ( IF SegLenAt(ii) <= 0 THEN 0
           ELSE ExpectedBays(SegLenAt(ii), P.mullion_spacing_mm) + 1 )
         + ExpectedMullionsFrom(ii + 1)

NumberOf(list, kinds) == Cardinality({ k \in DOMAIN list : list[k].kind \in kinds })

\* the guide of one straight segment of length 4000
Straight4000 == << <<0, 0, 0>>, << Float(4000), 0, 0 >> >>

\* C7: on return the framing holds stories * sum_i (c_i + 1) mullions, c_i
\* the bay counts of the non-degenerate segments; the end mullion of a
\* segment and the first mullion of the next segment processed in the same
\* story are two solids at the same position; one straight segment of
\* length 4000 with spacing 1350 gives 3 mullions per story.
C7_MullionCount ==
    /\ pc = "done" =>
           /\ NumberOf(breps_mullions, Mullions) = P.stories * ExpectedMullionsFrom(0)
           /\ (pl = Straight4000 /\ P.mullion_spacing_mm = Float(1350)) =>
                  NumberOf(breps_mullions, Mullions) = 3 * P.stories
    /\ \A k \in DOMAIN breps_mullions :
           ( /\ k > 1
             /\ breps_mullions[k].kind = "mullion" /\ breps_mullions[k].j = 0
             /\ breps_mullions[k].i > 0
             /\ breps_mullions[k - 1].s = breps_mullions[k].s ) =>
               /\ breps_mullions[k - 1].kind = "end_mullion"
               /\ OriginOf(breps_mullions[k - 1]) = OriginOf(breps_mullions[k])

\* the straight 4000 guide has returned with its 3 mullions per story
C7_WitnessStraight4000 ==
    /\ pc = "done" /\ pl = Straight4000 /\ P.mullion_spacing_mm = Float(1350)
    /\ P.stories = 2
    /\ NumberOf(breps_mullions, Mullions) = 6

\* a two-story run has returned over a guide with a segment of 2 bays and
\* an internal vertex shared by two non-degenerate segments
C7_Witness ==
    /\ pc = "done" /\ P.stories = 2
    /\ \E n \in DOMAIN frames : BayCountAt(frames[n].i) = 2
    /\ NumberOf(breps_mullions, Mullions) = P.stories * ExpectedMullionsFrom(0)
    /\ \E k \in DOMAIN breps_mullions :
           /\ k > 1 /\ breps_mullions[k].kind = "mullion"
           /\ breps_mullions[k - 1].kind = "end_mullion"
           /\ OriginOf(breps_mullions[k - 1]) = OriginOf(breps_mullions[k])

\* C8: for the segment being processed, of length L, with spacing S: bay
\* count = max(1, floor(L / S)), bay width * bay count = L, bay width >= S
\* when L >= S, one bay spanning the segment when S > L, and bay j starts
\* at j * width, the last bay ending at the segment's end mullion.
C8_BaySubdivision ==
    (pc = "bay" \/ (pc = "segment" /\ frames # << >>)) =>
        LET L == seg.seg_len
            S == P.mullion_spacing_mm
            n == seg.panel_count
            w == seg.step
        IN  /\ n >= 1
            /\ L >= S => IsFloorOf(n, L, S) /\ w >= S
            /\ L < S => n = 1 /\ w = L
            /\ w * n = L
            /\ \A k \in DOMAIN breps_mullions :
                   LET e == breps_mullions[k]
                       at(d) == AddZ(Add(seg.p_start, Mul(seg.xaxis, d)),
                                     e.s * P.story_height_mm)
                   IN  (e.i = seg.i /\ e.kind \in Mullions) =>
                           /\ e.kind = "mullion" =>
                                  e.j \in 0..(n - 1) /\ OriginOf(e) = at(e.j * w)
                           /\ e.kind = "end_mullion" =>
                                  /\ OriginOf(e) = at(n * w)
                                  /\ OriginOf(e) = AddZ(seg.p_end, e.s * P.story_height_mm)

\* a segment longer than the spacing has been split into 2 bays and closed
\* by its end mullion, and a segment shorter than the spacing into 1 bay
C8_Witness ==
    /\ pc = "segment" /\ frames # << >>
    /\ seg.seg_len > P.mullion_spacing_mm /\ seg.panel_count = 2
    /\ \E k \in DOMAIN breps_mullions :
           breps_mullions[k].i = seg.i /\ breps_mullions[k].kind = "end_mullion"
    /\ \E n \in DOMAIN frames : SegLenAt(frames[n].i) < P.mullion_spacing_mm

\* the two points of guide segment ii coincide within 1e-6
Coincide(ii) == LeqEps(SegLenAt(ii))

\* C9: a segment of length <= 1e-6 is a no-op: the step that meets it only
\* moves on to the next segment, leaving the outputs and the carried
\* lateral axis unchanged; no solid and no frame is ever made for such a
\* segment; a guide of two coincident points returns two empty collections.
C9_DegenerateSegmentNoOp ==
    /\ [][ (pc = "segment" /\ i < Count - 1 /\ Coincide(i)) =>
               /\ pc' = "segment" /\ i' = i + 1 /\ s' = s
               /\ UNCHANGED << breps_mullions, breps_glass, prev_yaxis, frames, bays >>
         ]_vars
    /\ [] /\ \A k \in DOMAIN breps_mullions : ~ Coincide(breps_mullions[k].i)
          /\ \A k \in DOMAIN breps_glass : ~ Coincide(breps_glass[k].i)
          /\ \A k \in DOMAIN frames : ~ Coincide(frames[k].i)
          /\ (pc = "done" /\ Count = 2 /\ Coincide(0)) =>
                 breps_mullions = << >> /\ breps_glass = << >>

\* a degenerate segment has been skipped after a frame was carried, and
\* the run went on to process a later segment
C9_Witness ==
    /\ \E n \in DOMAIN frames : \E m \in DOMAIN frames :
           /\ frames[n].s = frames[m].s
           /\ frames[m].i > frames[n].i + 1
           /\ \A ii \in (frames[n].i + 1)..(frames[m].i - 1) : Coincide(ii)
    /\ pc = "done"

\* a guide of two coincident points has returned
C9_WitnessTwoPoints ==
    pc = "done" /\ Count = 2 /\ Coincide(0) /\ breps_mullions = << >>

\* a is a prefix of b
IsPrefix(a, b) == Len(a) <= Len(b) /\ SubSeq(b, 1, Len(a)) = a

\* the place of a solid in the output order: story, segment, bay (the end
\* mullion after every bay of its segment), then mullion, bottom, top
Rank(e) ==
    << e.s, e.i,
       IF e.kind = "end_mullion" THEN BayCountAt(e.i) ELSE e.j,
       CASE e.kind = "bottom_transom" -> 1
         [] e.kind = "top_transom" -> 2
         [] OTHER -> 0 >>

RECURSIVE LexLess(_, _)
LexLess(a, b) ==
    /\ a # << >>
    /\ \/ a[1] < b[1]
       \/ a[1] = b[1] /\ LexLess(Tail(a), Tail(b))

Ordered(list) ==
    \A k \in DOMAIN list : k > 1 => LexLess(Rank(list[k - 1]), Rank(list[k]))

\* C10: the outputs only grow by appending; the framing is ordered by
\* story, then segment, then bay, each bay giving its mullion, bottom
\* transom, top transom, the end mullion closing the segment; the glazing
\* is in the same story/segment/bay order.
C10_OutputOrder ==
    /\ [][ /\ IsPrefix(breps_mullions, breps_mullions')
           /\ IsPrefix(breps_glass, breps_glass') ]_vars
    /\ [] /\ Ordered(breps_mullions)
          /\ Ordered(breps_glass)
          /\ \A k \in DOMAIN breps_mullions :
                 /\ breps_mullions[k].kind = "bottom_transom" =>
                        /\ k > 1 /\ breps_mullions[k - 1].kind = "mullion"
                        /\ k < Len(breps_mullions)
                        /\ breps_mullions[k + 1].kind = "top_transom"
                 /\ breps_mullions[k].kind = "end_mullion" =>
                        /\ k > 1
                        /\ breps_mullions[k - 1].kind # "end_mullion"
                        /\ breps_mullions[k - 1].i = breps_mullions[k].i
                        /\ breps_mullions[k - 1].j = BayCountAt(breps_mullions[k].i) - 1

\* a two-story run over several segments, with glazed bays, has returned
C10_Witness ==
    /\ pc = "done" /\ P.stories = 2
    /\ Len(frames) >= 4
    /\ Len(breps_glass) >= 4
    /\ NumberOf(breps_mullions, Transoms) >= 8

====
